---- MODULE Spec2Model ----
(***************************************************************************)
(* Model of mws/apis/inbound_shipments.py and mws/apis/reports.py:         *)
(* the item-argument parser, the ship-from address held by an              *)
(* InboundShipments client, the three shipment request builders and the    *)
(* token-paginated list operations.                                        *)
(***************************************************************************)
EXTENDS Integers, Sequences, FiniteSets, TLC

VARIABLES
    phase,         \* "module": no client involved; "new": before __init__;
                   \* "ready": client constructed; "failed": __init__ raised
    from_address,  \* InboundShipments.from_address
    call,          \* the latest invocation: its operation and arguments
    result,        \* what that invocation did: Pending, Raise(..) or Return(..)
    request,       \* the data it handed to make_request, or None
    address_set,   \* history: some set_ship_from_address has returned normally
    address_before,\* history: from_address as the latest invocation found it
    setter,        \* a second caller inside set_ship_from_address: its position
    reader         \* a caller inside a shipment operation: its position

vars ==
    <<phase, from_address, call, result, request, address_set,
      address_before, setter, reader>>

\* a caller that is in no method
Idle == [pc |-> "idle"]

----------------------------------------------------------------------------
(* Python values. Every value is a record whose single field names its     *)
(* type, so values of different types are unequal and never confused.      *)

None == [none |-> TRUE]
Str(s) == [str |-> s]
PyInt(n) == [int |-> n]
Dict(f) == [dict |-> f]
List(s) == [list |-> s]
Bool(b) == [bool |-> b]
Datetime(d) == [datetime |-> d]

IsNone(v) == "none" \in DOMAIN v
IsStr(v) == "str" \in DOMAIN v
IsInt(v) == "int" \in DOMAIN v
IsDict(v) == "dict" \in DOMAIN v
IsList(v) == "list" \in DOMAIN v
IsBool(v) == "bool" \in DOMAIN v
IsDatetime(v) == "datetime" \in DOMAIN v

EmptyDict == [k \in {} |-> None]

\* Python truth value of v (`if v:` / `not v`)
Truthy(v) ==
    CASE IsNone(v) -> FALSE
      [] IsStr(v) -> v.str # ""
      [] IsInt(v) -> v.int # 0
      [] IsDict(v) -> DOMAIN v.dict # {}
      [] IsList(v) -> Len(v.list) > 0
      [] IsBool(v) -> v.bool
      [] IsDatetime(v) -> TRUE

\* str(v) for the values that reach it
PyStr(v) == IF IsInt(v) THEN Str(ToString(v.int)) ELSE v

\* d.get(k, default) on the mapping d
Get(d, k, default) == IF k \in DOMAIN d THEN d[k] ELSE default

\* d.update(e): e's entries win
Update(d, e) ==
    [k \in DOMAIN d \cup DOMAIN e |-> IF k \in DOMAIN e THEN e[k] ELSE d[k]]

\* the outcome of an invocation
Pending == [pending |-> TRUE]
Raise(e) == [raise |-> e]
Return(v) == [ret |-> v]
Raised(r) == "raise" \in DOMAIN r
Returned(r) == "ret" \in DOMAIN r

----------------------------------------------------------------------------
(* Bounds and input domains                                                *)

MaxItems == 2

ItemKeys == {"sku", "quantity", "quantity_in_case", "asin", "condition"}

ItemValue(k, sku) ==
    CASE k = "sku" -> Str(sku)
      [] k = "quantity" -> PyInt(3)
      [] k = "quantity_in_case" -> PyInt(12)
      [] k = "asin" -> Str("B00ASIN")
      [] k = "condition" -> Str("NewItem")
      [] OTHER -> Str("ignored")

MkItem(dom, sku) == Dict([k \in dom |-> ItemValue(k, sku)])

\* item dicts: every choice of optional keys beside the required ones, dicts
\* lacking a required key, a second sku, a text quantity, explicit None
\* values, an extra key; and an element that is no dict
ItemDomains ==
    {{"sku", "quantity"} \cup opt :
        opt \in SUBSET {"quantity_in_case", "asin", "condition"}}
    \cup {{}, {"sku"}, {"quantity"}, {"quantity", "asin"},
          {"sku", "quantity_in_case", "condition"}}

Items ==
    {MkItem(dom, "SKU-A") : dom \in ItemDomains}
    \cup {MkItem({"sku", "quantity"}, "SKU-B"), MkItem(ItemKeys, "SKU-B"),
          MkItem({"sku", "quantity", "note"}, "SKU-C"),
          Dict([k \in {"sku", "quantity"} |->
                  IF k = "sku" THEN Str("SKU-D") ELSE Str("7")]),
          Dict([k \in {"sku", "quantity", "quantity_in_case", "asin"} |->
                  IF k \in {"sku", "quantity"} THEN ItemValue(k, "SKU-E")
                  ELSE None]),
          Str("SKU-A")}

SeqsUpTo(S, n) == UNION {[1..m -> S] : m \in 0..n}

ItemArgs == {None} \cup {List(s) : s \in SeqsUpTo(Items, MaxItems)}

Operations ==
    {"CreateInboundShipmentPlan", "CreateInboundShipment",
     "UpdateInboundShipment"}

----------------------------------------------------------------------------
(* parse_item_args                                                         *)

\* (input_key, output_key, is_required, default_value)
item_key_config(operation) ==
    IF operation = "CreateInboundShipmentPlan"
    THEN << <<"sku", "SellerSKU", TRUE, None>>,
            <<"quantity", "Quantity", TRUE, None>>,
            <<"quantity_in_case", "QuantityInCase", FALSE, None>>,
            <<"asin", "ASIN", FALSE, None>>,
            <<"condition", "Condition", FALSE, None>> >>
    ELSE << <<"sku", "SellerSKU", TRUE, None>>,
            <<"quantity", "QuantityShipped", TRUE, None>>,
            <<"quantity_in_case", "QuantityInCase", FALSE, None>> >>

quantity_key_always_plan(operation) == "Quantity"

quantity_key(operation) ==
    IF operation = "CreateInboundShipmentPlan" THEN "Quantity"
    ELSE "QuantityShipped"

has_required_keys_any(item, key_config) ==
    \E j \in 1..Len(key_config) :
        key_config[j][3] /\ key_config[j][1] \in DOMAIN item

\* all(k in item for k in [c[0] for c in key_config if c[2]])
has_required_keys(item, key_config) ==
    \A j \in 1..Len(key_config) :
        key_config[j][3] => key_config[j][1] \in DOMAIN item

extra_fields_omit_absent(item, key_config) ==
    LET extra == {j \in 1..Len(key_config) :
                    /\ key_config[j][1] \notin
                            {"sku", "quantity", "quantity_in_case"}
                    /\ key_config[j][1] \in DOMAIN item}
    IN  [k \in {key_config[j][2] : j \in extra} |->
            LET j == CHOOSE i \in extra : key_config[i][2] = k
            IN  item[key_config[j][1]]]

\* {c[1]: item.get(c[0], c[3]) for c in key_config
\*  if c[0] not in ['sku', 'quantity', 'quantity_in_case']}
extra_fields(item, key_config) ==
    LET extra == {j \in 1..Len(key_config) :
                    key_config[j][1] \notin
                        {"sku", "quantity", "quantity_in_case"}}
    IN  [k \in {key_config[j][2] : j \in extra} |->
            LET j == CHOOSE i \in extra : key_config[i][2] = k
            IN  Get(item, key_config[j][1], key_config[j][4])]

\* the body of the loop for one item that passed the checks
item_dict(item, operation) ==
    LET quantity == Get(item, "quantity", None)
        quantity_in_case == Get(item, "quantity_in_case", None)
        base == [k \in {"SellerSKU", quantity_key(operation),
                        "QuantityInCase"} |->
                    CASE k = "SellerSKU" -> Get(item, "sku", None)
                      [] k = "QuantityInCase" ->
                            IF IsNone(quantity_in_case) THEN None
                            ELSE PyStr(quantity_in_case)
                      [] OTHER ->
                            IF IsNone(quantity) THEN None
                            ELSE PyStr(quantity)]
    IN  Update(base, extra_fields(item, item_key_config(operation)))

\* the loop: items gathered so far in acc, element i next
RECURSIVE parse_loop(_, _, _, _)
parse_loop(item_args, operation, i, acc) ==
    IF i > Len(item_args) THEN Return(List(acc))
    ELSE IF ~IsDict(item_args[i]) THEN Raise("MWSError")
    ELSE IF ~has_required_keys(item_args[i].dict, item_key_config(operation))
         THEN Raise("MWSError")
    ELSE parse_loop(item_args, operation, i + 1,
                    Append(acc, Dict(item_dict(item_args[i].dict, operation))))

parse_item_args(item_args, operation) ==
    IF ~Truthy(item_args) THEN Raise("MWSError")
    ELSE parse_loop(item_args.list, operation, 1, <<>>)

----------------------------------------------------------------------------
(* Collaborators outside these two files: the utils helpers and the base   *)
(* client's make_request                                                   *)

\* utils.enumerate_keyed_param: a list of dicts as <param>.<n>.<Field>
\* entries, n counting from 1 in list order
enumerate_keyed_param(param, values) ==
    LET pairs == {<<i, f>> : i \in 1..Len(values),
                             f \in UNION {DOMAIN values[j].dict :
                                            j \in 1..Len(values)}}
        own == {p \in pairs : p[2] \in DOMAIN values[p[1]].dict}
        key(p) == param \o "." \o ToString(p[1]) \o "." \o p[2]
    IN  [k \in {key(p) : p \in own} |->
            LET p == CHOOSE q \in own : key(q) = k
            IN  values[p[1]].dict[p[2]]]

\* utils.enumerate_param: a list as <param>1, <param>2, ... entries; nothing
\* for an absent or empty list
enumerate_param(param, values) ==
    IF ~Truthy(values) THEN EmptyDict
    ELSE [k \in {param \o ToString(i) : i \in 1..Len(values.list)} |->
            values.list[CHOOSE i \in 1..Len(values.list) :
                            param \o ToString(i) = k]]

\* utils.dt_iso_or_none: the ISO 8601 text of a datetime, or None
dt_iso_or_none(value) ==
    IF IsDatetime(value) THEN Str(value.datetime \o "T00:00:00") ELSE None

\* MWS.make_request(data, method): the request goes out with these
\* parameters and the parsed response comes back
make_request(data, method) ==
    [result |-> Return(Str("response")), request |-> Dict(data)]

\* an invocation that raised before reaching make_request
Fail(e) == [result |-> Raise(e), request |-> None]

----------------------------------------------------------------------------
(* InboundShipments: the ship-from address                                 *)

SHIPMENT_STATUSES == {Str("WORKING"), Str("SHIPPED"), Str("CANCELLED")}
DEFAULT_SHIP_STATUS == Str("WORKING")
LABEL_PREFERENCES ==
    {Str("SELLER_LABEL"), Str("AMAZON_LABEL_ONLY"),
     Str("AMAZON_LABEL_PREFERRED")}

address_key_config_no_default ==
    << <<"name", "Name", TRUE, None>>,
       <<"address_1", "AddressLine1", TRUE, None>>,
       <<"address_2", "AddressLine2", FALSE, None>>,
       <<"city", "City", TRUE, None>>,
       <<"district_or_county", "DistrictOrCounty", FALSE, None>>,
       <<"state_or_province", "StateOrProvinceCode", FALSE, None>>,
       <<"postal_code", "PostalCode", FALSE, None>>,
       <<"country", "CountryCode", FALSE, None>> >>

\* (input_key, output_key, is_required, default_value)
address_key_config ==
    << <<"name", "Name", TRUE, None>>,
       <<"address_1", "AddressLine1", TRUE, None>>,
       <<"address_2", "AddressLine2", FALSE, None>>,
       <<"city", "City", TRUE, None>>,
       <<"district_or_county", "DistrictOrCounty", FALSE, None>>,
       <<"state_or_province", "StateOrProvinceCode", FALSE, None>>,
       <<"postal_code", "PostalCode", FALSE, None>>,
       <<"country", "CountryCode", FALSE, Str("US")>> >>

\* all(k in address for k in [c[0] for c in key_config if c[2]])
address_has_required_keys(address) ==
    \A j \in 1..Len(address_key_config) :
        address_key_config[j][3] => address_key_config[j][1] \in DOMAIN address

\* {'ShipFromAddress.{}'.format(c[1]): address.get(c[0], c[3])
\*  for c in key_config}
parsed_address(address) ==
    LET n == Len(address_key_config)
        key(j) == "ShipFromAddress." \o address_key_config[j][2]
    IN  [k \in {key(j) : j \in 1..n} |->
            LET j == CHOOSE i \in 1..n : key(i) = k
            IN  Get(address, address_key_config[j][1],
                    address_key_config[j][4])]

set_ship_from_address_clears_to_empty(address) ==
    IF ~Truthy(address) \/ ~IsDict(address) THEN
        [from_address |-> Dict(EmptyDict), result |-> Raise("MWSError")]
    ELSE IF ~address_has_required_keys(address.dict) THEN
        [from_address |-> Dict(EmptyDict), result |-> Raise("MWSError")]
    ELSE [from_address |-> Dict(parsed_address(address.dict)),
          result |-> Return(None)]

\* the method's effect on self.from_address and its outcome; the field is
\* cleared first, and set again only when every check passed
set_ship_from_address(address) ==
    IF ~Truthy(address) THEN
        [from_address |-> None, result |-> Raise("MWSError")]
    ELSE IF ~IsDict(address) THEN
        [from_address |-> None, result |-> Raise("MWSError")]
    ELSE IF ~address_has_required_keys(address.dict) THEN
        [from_address |-> None, result |-> Raise("MWSError")]
    ELSE [from_address |-> Dict(parsed_address(address.dict)),
          result |-> Return(None)]

\* __init__: from_address starts as {}; a from_address keyword goes through
\* set_ship_from_address, whose return value is then assigned to the field
init(kwargs) ==
    LET addr == Get(kwargs, "from_address", None)
    IN  IF IsNone(addr) THEN
            [from_address |-> Dict(EmptyDict), result |-> Return(None)]
        ELSE LET r == set_ship_from_address(addr)
             IN  IF Raised(r.result) THEN r
                 ELSE [from_address |-> r.result.ret, result |-> Return(None)]

----------------------------------------------------------------------------
(* InboundShipments: the three shipment request builders                   *)

Or(v, w) == IF Truthy(v) THEN v ELSE w

address_not_set_none_only(self_from_address) == IsNone(self_from_address)

\* `if not self.from_address:`
address_not_set(self_from_address) == ~Truthy(self_from_address)

\* {'InboundShipmentHeader.{}'.format(k): v for k, v in from_address.items()}
header_address(address) ==
    [k \in {"InboundShipmentHeader." \o a : a \in DOMAIN address} |->
        address[CHOOSE a \in DOMAIN address :
                    "InboundShipmentHeader." \o a = k]]

create_shipment_status_literal(shipment_status) == shipment_status

\* create: a status outside SHIPMENT_STATUSES becomes the default
create_shipment_status(shipment_status) ==
    IF shipment_status \notin SHIPMENT_STATUSES THEN DEFAULT_SHIP_STATUS
    ELSE shipment_status

\* update: a status outside SHIPMENT_STATUSES is removed by setting it to None
update_shipment_status(shipment_status) ==
    IF shipment_status \notin SHIPMENT_STATUSES THEN None
    ELSE shipment_status

checked_label_preference(label_preference) ==
    IF label_preference \notin LABEL_PREFERENCES THEN None
    ELSE label_preference

plan_data(self_from_address, items, country_code, subdivision_code, label_preference) ==
    Update(Update(
        ("Action" :> Str("CreateInboundShipmentPlan"))
        @@ ("ShipToCountryCode" :> country_code)
        @@ ("ShipToCountrySubdivisionCode" :> Or(subdivision_code, None))
        @@ ("LabelPrepPreference" :> Or(label_preference, None)),
        self_from_address.dict),
        enumerate_keyed_param("InboundShipmentPlanRequestItems.member",
                              items))

plan_request_before_address_check(self_from_address, items, country_code, subdivision_code, label_preference) ==
    IF ~Truthy(items) THEN Fail("MWSError")
    ELSE LET parsed == parse_item_args(items, "CreateInboundShipmentPlan")
         IN  IF Raised(parsed) THEN Fail("MWSError")
             ELSE LET sent == make_request(
                        plan_data(Dict(EmptyDict), parsed.ret.list,
                                  country_code, subdivision_code,
                                  label_preference), "POST")
                  IN  IF address_not_set(self_from_address)
                      THEN [result |-> Raise("MWSError"),
                            request |-> sent.request]
                      ELSE make_request(
                              plan_data(self_from_address, parsed.ret.list,
                                        country_code, subdivision_code,
                                        label_preference), "POST")

create_inbound_shipment_plan(self_from_address, items, country_code, subdivision_code, label_preference) ==
    IF ~Truthy(items) THEN Fail("MWSError")
    ELSE LET parsed == parse_item_args(items, "CreateInboundShipmentPlan")
         IN  IF Raised(parsed) THEN Fail("MWSError")
             ELSE IF address_not_set(self_from_address) THEN Fail("MWSError")
             ELSE make_request(
                     plan_data(self_from_address, parsed.ret.list,
                               country_code, subdivision_code,
                               label_preference), "POST")

\* the header fields common to create and update, with the status and label
\* preference already checked
shipment_data(action, shipment_id, shipment_name, destination, shipment_status, label_preference, case_required, box_contents_source) ==
    ("Action" :> Str(action))
    @@ ("ShipmentId" :> shipment_id)
    @@ ("InboundShipmentHeader.ShipmentName" :> shipment_name)
    @@ ("InboundShipmentHeader.DestinationFulfillmentCenterId" :> destination)
    @@ ("InboundShipmentHeader.LabelPrepPreference" :> label_preference)
    @@ ("InboundShipmentHeader.AreCasesRequired" :>
            IF Truthy(case_required) THEN Str("true") ELSE Str("false"))
    @@ ("InboundShipmentHeader.ShipmentStatus" :> shipment_status)
    @@ ("InboundShipmentHeader.IntendedBoxContentsSource" :>
            box_contents_source)

create_inbound_shipment(self_from_address, shipment_id, shipment_name, destination, items, shipment_status, label_preference, case_required, box_contents_source) ==
    IF ~IsStr(shipment_id) \/ ~IsStr(shipment_name) \/ ~IsStr(destination)
    THEN Fail("AssertionError")
    ELSE IF ~Truthy(items) THEN Fail("MWSError")
    ELSE LET parsed == parse_item_args(items, "CreateInboundShipment")
         IN  IF Raised(parsed) THEN Fail("MWSError")
             ELSE IF address_not_set(self_from_address) THEN Fail("MWSError")
             ELSE make_request(
                     Update(Update(
                         shipment_data("CreateInboundShipment", shipment_id,
                             shipment_name, destination,
                             create_shipment_status(shipment_status),
                             checked_label_preference(label_preference),
                             case_required, box_contents_source),
                         header_address(self_from_address.dict)),
                         enumerate_keyed_param("InboundShipmentItems.member",
                                               parsed.ret.list)),
                     "POST")

update_parse_items_required(items) ==
    parse_item_args(items, "UpdateInboundShipment")

\* `if items: items = parse_item_args(...) else: items = None`
update_parse_items(items) ==
    IF Truthy(items) THEN parse_item_args(items, "UpdateInboundShipment")
    ELSE Return(None)

\* `if items: data.update(enumerate_keyed_param(...))`
update_item_params(items) ==
    IF Truthy(items)
    THEN enumerate_keyed_param("InboundShipmentItems.member", items.list)
    ELSE EmptyDict

update_inbound_shipment(self_from_address, shipment_id, shipment_name, destination, items, shipment_status, label_preference, case_required, box_contents_source) ==
    IF ~IsStr(shipment_id) \/ ~IsStr(shipment_name) \/ ~IsStr(destination)
    THEN Fail("AssertionError")
    ELSE LET parsed == update_parse_items(items)
         IN  IF Raised(parsed) THEN Fail("MWSError")
             ELSE IF address_not_set(self_from_address) THEN Fail("MWSError")
             ELSE make_request(
                     Update(Update(
                         shipment_data("UpdateInboundShipment", shipment_id,
                             shipment_name, destination,
                             update_shipment_status(shipment_status),
                             checked_label_preference(label_preference),
                             case_required, box_contents_source),
                         header_address(self_from_address.dict)),
                         update_item_params(parsed.ret)),
                     "POST")

----------------------------------------------------------------------------
(* Token-paginated operations                                              *)

InboundShipments_NEXT_TOKEN_OPERATIONS ==
    {"ListInboundShipments", "ListInboundShipmentItems"}

Reports_NEXT_TOKEN_OPERATIONS ==
    {"GetReportRequestList", "GetReportScheduleList"}

\* the continuation request: the action's ByNextToken form and the token
action_by_next_token(action_name, next_token) ==
    make_request(("Action" :> Str(action_name \o "ByNextToken"))
                 @@ ("NextToken" :> next_token), "POST")

\* decorators.next_token_action(action_name) around a method of a class
\* whose NEXT_TOKEN_OPERATIONS is `listed`: with a token set, a listed action
\* is re-issued as its continuation request in place of the method's own
\* request `own`. What a token does for an action the class does not list is
\* not fixed by the description: `unlisted` says whether the call is refused
\* or the method's own request goes out.
next_token_action(listed, action_name, next_token, own, unlisted) ==
    IF ~Truthy(next_token) THEN own
    ELSE IF action_name \in listed
         THEN action_by_next_token(action_name, next_token)
    ELSE IF unlisted = "refused" THEN Fail("MWSError")
    ELSE own

UnlistedOutcomes == {"refused", "own request"}

list_inbound_shipments(shipment_ids, shipment_statuses, last_updated_after, last_updated_before) ==
    make_request(
        Update(Update(
            ("Action" :> Str("ListInboundShipments"))
            @@ ("LastUpdatedAfter" :> dt_iso_or_none(last_updated_after))
            @@ ("LastUpdatedBefore" :> dt_iso_or_none(last_updated_before)),
            enumerate_param("ShipmentStatusList.member.", shipment_statuses)),
            enumerate_param("ShipmentIdList.member.", shipment_ids)),
        "POST")

list_inbound_shipment_items(shipment_id, last_updated_after, last_updated_before) ==
    make_request(
        ("Action" :> Str("ListInboundShipmentItems"))
        @@ ("ShipmentId" :> shipment_id)
        @@ ("LastUpdatedAfter" :> dt_iso_or_none(last_updated_after))
        @@ ("LastUpdatedBefore" :> dt_iso_or_none(last_updated_before)),
        "POST")

get_report_list(requestids, max_count, types, acknowledged, fromdate, todate) ==
    make_request(
        Update(Update(
            ("Action" :> Str("GetReportList"))
            @@ ("Acknowledged" :> acknowledged)
            @@ ("AvailableFromDate" :> fromdate)
            @@ ("AvailableToDate" :> todate)
            @@ ("MaxCount" :> max_count),
            enumerate_param("ReportRequestIdList.Id.", requestids)),
            enumerate_param("ReportTypeList.Type.", types)),
        "GET")

get_report_request_list(requestids, types, processingstatuses, max_count, fromdate, todate) ==
    make_request(
        Update(Update(Update(
            ("Action" :> Str("GetReportRequestList"))
            @@ ("MaxCount" :> max_count)
            @@ ("RequestedFromDate" :> fromdate)
            @@ ("RequestedToDate" :> todate),
            enumerate_param("ReportRequestIdList.Id.", requestids)),
            enumerate_param("ReportTypeList.Type.", types)),
            enumerate_param("ReportProcessingStatusList.Status.",
                            processingstatuses)),
        "GET")

----------------------------------------------------------------------------
(* parse_item_args as a module-level function applied to drawn inputs      *)

InitParse ==
    /\ phase = "module"
    /\ from_address = None
    /\ call \in {[op |-> "parse_item_args", item_args |-> a, operation |-> o] :
                    a \in ItemArgs, o \in Operations}
    /\ result = Pending
    /\ request = None
    /\ address_set = FALSE
    /\ address_before = None
    /\ setter = Idle
    /\ reader = Idle

ParseItemArgs ==
    /\ phase = "module"
    /\ result = Pending
    /\ result' = parse_item_args(call.item_args, call.operation)
    /\ UNCHANGED <<phase, from_address, call, request, address_set,
                   address_before, setter, reader>>

NextParse == ParseItemArgs

SpecParse == InitParse /\ [][NextParse]_vars

----------------------------------------------------------------------------
(* Inputs of the client operations                                         *)

AddressKeys ==
    {"name", "address_1", "address_2", "city", "district_or_county",
     "state_or_province", "postal_code", "country"}

AddressValue(k) == IF k = "country" THEN Str("CA") ELSE Str("the " \o k)

MkAddress(dom) == Dict([k \in dom |-> AddressValue(k)])

\* a few addresses for the shipment operations: none, empty, not a dict,
\* city missing, the required keys alone, every key
AddressArgs ==
    {None, Dict(EmptyDict), Str("1 Main St"),
     MkAddress({"name", "address_1"}),
     MkAddress({"name", "address_1", "city"}),
     MkAddress(AddressKeys)}

\* addresses for the setter alone: every choice among the required keys with
\* every choice among three optional ones, the country given as "US" or as
\* None, and the arguments that are no address
AllAddressArgs ==
    {None, Dict(EmptyDict), Str("1 Main St")}
    \cup {MkAddress(req \cup opt) :
            req \in SUBSET {"name", "address_1", "city"},
            opt \in SUBSET {"address_2", "postal_code", "country"}}
    \cup {Dict([k \in {"name", "address_1", "city", "country"} |->
                  IF k = "country" THEN c ELSE AddressValue(k)]) :
            c \in {Str("US"), None}}

CtorKwargs(addresses) ==
    {EmptyDict} \cup {("from_address" :> a) : a \in addresses}

\* items for the shipment operations: two valid dicts and a dict without
\* quantity (the parser's own inputs are wider, see Items)
ClientItems ==
    {MkItem(ItemKeys, "SKU-A"), MkItem({"sku", "quantity"}, "SKU-B"),
     MkItem({"sku", "asin"}, "SKU-C")}

ClientItemArgs == {None} \cup {List(s) : s \in SeqsUpTo(ClientItems, MaxItems)}

\* <<shipment_id, shipment_name, destination, shipment_status>>: all text
\* with a status left out, valid or invalid; or one of the three not text
ShipmentArgs ==
    {<<Str("FBA1"), Str("spring restock"), Str("PHX3"), st>> :
        st \in {Str(""), Str("SHIPPED"), Str("BOGUS")}}
    \cup {<<PyInt(1), Str("spring restock"), Str("PHX3"), Str("SHIPPED")>>,
          <<Str("FBA1"), None, Str("PHX3"), Str("")>>,
          <<Str("FBA1"), Str("spring restock"), None, Str("BOGUS")>>}

TokenArgs == {None, Str("token-1"), Str("token-2")}

----------------------------------------------------------------------------
(* The client: construction and the operations, one action per method      *)

InitClient ==
    /\ phase = "new"
    /\ from_address = None
    /\ call = [op |-> "none"]
    /\ result = Pending
    /\ request = None
    /\ address_set = FALSE
    /\ address_before = None
    /\ setter = Idle
    /\ reader = Idle

\* InboundShipments(..., from_address=...)
Construct(addresses) ==
    /\ phase = "new"
    /\ \E kwargs \in CtorKwargs(addresses) :
          \E r \in {init(kwargs)} :
              /\ phase' = IF Raised(r.result) THEN "failed" ELSE "ready"
              /\ from_address' = r.from_address
              /\ call' = [op |-> "__init__", kwargs |-> Dict(kwargs)]
              /\ result' = r.result
              /\ address_set' =
                    /\ ~IsNone(Get(kwargs, "from_address", None))
                    /\ ~Raised(r.result)
    /\ request' = None
    /\ address_before' = from_address
    /\ UNCHANGED <<setter, reader>>

SetShipFromAddress(addresses) ==
    /\ phase = "ready"
    /\ \E address \in addresses :
          \E r \in {set_ship_from_address(address)} :
              /\ from_address' = r.from_address
              /\ call' = [op |-> "set_ship_from_address", address |-> address]
              /\ result' = r.result
              /\ address_set' = (address_set \/ Returned(r.result))
    /\ request' = None
    /\ address_before' = from_address
    /\ UNCHANGED <<phase, setter, reader>>

CreateInboundShipmentPlan ==
    /\ phase = "ready"
    /\ \E items \in ClientItemArgs :
          \E r \in {create_inbound_shipment_plan(from_address, items,
                        Str("US"), Str(""), Str(""))} :
              /\ call' = [op |-> "create_inbound_shipment_plan",
                          items |-> items]
              /\ result' = r.result
              /\ request' = r.request
    /\ address_before' = from_address
    /\ UNCHANGED <<phase, from_address, address_set, setter, reader>>

CreateInboundShipment ==
    /\ phase = "ready"
    /\ \E a \in ShipmentArgs, items \in ClientItemArgs :
          \E r \in {create_inbound_shipment(from_address, a[1], a[2], a[3],
                        items, a[4], Str(""), Bool(FALSE), None)} :
              /\ call' = [op |-> "create_inbound_shipment",
                          shipment_id |-> a[1], shipment_name |-> a[2],
                          destination |-> a[3], items |-> items,
                          shipment_status |-> a[4]]
              /\ result' = r.result
              /\ request' = r.request
    /\ address_before' = from_address
    /\ UNCHANGED <<phase, from_address, address_set, setter, reader>>

UpdateInboundShipment ==
    /\ phase = "ready"
    /\ \E a \in ShipmentArgs, items \in ClientItemArgs :
          \E r \in {update_inbound_shipment(from_address, a[1], a[2], a[3],
                        items, a[4], Str(""), Bool(FALSE), None)} :
              /\ call' = [op |-> "update_inbound_shipment",
                          shipment_id |-> a[1], shipment_name |-> a[2],
                          destination |-> a[3], items |-> items,
                          shipment_status |-> a[4]]
              /\ result' = r.result
              /\ request' = r.request
    /\ address_before' = from_address
    /\ UNCHANGED <<phase, from_address, address_set, setter, reader>>

\* @next_token_action('ListInboundShipments')
ListInboundShipments ==
    /\ phase = "ready"
    /\ \E shipment_ids \in {None, List(<<Str("FBA1"), Str("FBA2")>>)},
          shipment_statuses \in {List(<<Str("WORKING")>>)},
          next_token \in TokenArgs, unlisted \in UnlistedOutcomes :
          \E r \in {next_token_action(InboundShipments_NEXT_TOKEN_OPERATIONS,
                        "ListInboundShipments", next_token,
                        list_inbound_shipments(shipment_ids,
                            shipment_statuses, None, None),
                        unlisted)} :
              /\ call' = [op |-> "list_inbound_shipments",
                          action |-> "ListInboundShipments",
                          next_token |-> next_token,
                          shipment_ids |-> shipment_ids,
                          shipment_statuses |-> shipment_statuses]
              /\ result' = r.result
              /\ request' = r.request
    /\ address_before' = from_address
    /\ UNCHANGED <<phase, from_address, address_set, setter, reader>>

\* @next_token_action('ListInboundShipmentItems')
ListInboundShipmentItems ==
    /\ phase = "ready"
    /\ \E shipment_id \in {Str("FBA1")},
          last_updated_after \in {None, Datetime("2017-01-01")},
          next_token \in TokenArgs, unlisted \in UnlistedOutcomes :
          \E r \in {next_token_action(InboundShipments_NEXT_TOKEN_OPERATIONS,
                        "ListInboundShipmentItems", next_token,
                        list_inbound_shipment_items(shipment_id,
                            last_updated_after, None),
                        unlisted)} :
              /\ call' = [op |-> "list_inbound_shipment_items",
                          action |-> "ListInboundShipmentItems",
                          next_token |-> next_token,
                          shipment_id |-> shipment_id,
                          last_updated_after |-> last_updated_after]
              /\ result' = r.result
              /\ request' = r.request
    /\ address_before' = from_address
    /\ UNCHANGED <<phase, from_address, address_set, setter, reader>>

\* @next_token_action('GetReportList'), on a Reports client used beside the
\* InboundShipments client
GetReportList ==
    /\ phase = "ready"
    /\ \E requestids \in {List(<<>>), List(<<Str("R1")>>)},
          max_count \in {PyInt(10)},
          next_token \in TokenArgs, unlisted \in UnlistedOutcomes :
          \E r \in {next_token_action(Reports_NEXT_TOKEN_OPERATIONS,
                        "GetReportList", next_token,
                        get_report_list(requestids, max_count, List(<<>>),
                            None, None, None),
                        unlisted)} :
              /\ call' = [op |-> "get_report_list",
                          action |-> "GetReportList",
                          next_token |-> next_token,
                          requestids |-> requestids,
                          max_count |-> max_count]
              /\ result' = r.result
              /\ request' = r.request
    /\ address_before' = from_address
    /\ UNCHANGED <<phase, from_address, address_set, setter, reader>>

\* @next_token_action('GetReportRequestList'), on the Reports client
GetReportRequestList ==
    /\ phase = "ready"
    /\ \E requestids \in {List(<<>>), List(<<Str("R1")>>)},
          max_count \in {PyInt(10)},
          next_token \in TokenArgs, unlisted \in UnlistedOutcomes :
          \E r \in {next_token_action(Reports_NEXT_TOKEN_OPERATIONS,
                        "GetReportRequestList", next_token,
                        get_report_request_list(requestids, List(<<>>),
                            List(<<>>), max_count, None, None),
                        unlisted)} :
              /\ call' = [op |-> "get_report_request_list",
                          action |-> "GetReportRequestList",
                          next_token |-> next_token,
                          requestids |-> requestids,
                          max_count |-> max_count]
              /\ result' = r.result
              /\ request' = r.request
    /\ address_before' = from_address
    /\ UNCHANGED <<phase, from_address, address_set, setter, reader>>

Next ==
    \/ Construct(AddressArgs)
    \/ SetShipFromAddress(AddressArgs)
    \/ CreateInboundShipmentPlan
    \/ CreateInboundShipment
    \/ UpdateInboundShipment
    \/ ListInboundShipments
    \/ ListInboundShipmentItems
    \/ GetReportList
    \/ GetReportRequestList

Spec == InitClient /\ [][Next]_vars

\* the client with its constructor and address setter alone, over the wide
\* set of addresses
NextAddress ==
    \/ Construct(AllAddressArgs)
    \/ SetShipFromAddress(AllAddressArgs)

SpecAddress == InitClient /\ [][NextAddress]_vars

----------------------------------------------------------------------------
(* Properties of parse_item_args (checked under SpecParse)                 *)

ParseDone == call.op = "parse_item_args" /\ result # Pending

\* the argument is a non-empty list of dicts that all carry sku and quantity
AllItemsValid(item_args) ==
    /\ IsList(item_args)
    /\ Len(item_args.list) > 0
    /\ \A i \in 1..Len(item_args.list) :
          /\ IsDict(item_args.list[i])
          /\ {"sku", "quantity"} \subseteq DOMAIN item_args.list[i].dict

OtherQuantityName(operation) ==
    IF operation = "CreateInboundShipmentPlan" THEN "QuantityShipped"
    ELSE "Quantity"

\* C6: for a non-empty list of item dicts that all carry the required keys,
\* under either schema, parse_item_args returns a list of the same length
\* whose i-th mapping is built from the i-th item (SellerSKU is its sku) and
\* holds the quantity, in string form, under Quantity for the plan schema
\* and under QuantityShipped for create/update, never under the other name.
C6_SameLengthOrderAndQuantityName ==
    (ParseDone /\ AllItemsValid(call.item_args)) =>
        /\ Returned(result)
        /\ IsList(result.ret)
        /\ Len(result.ret.list) = Len(call.item_args.list)
        /\ \A i \in 1..Len(call.item_args.list) :
              LET in == call.item_args.list[i].dict
                  out == result.ret.list[i].dict
                  qk == IF call.operation = "CreateInboundShipmentPlan"
                        THEN "Quantity" ELSE "QuantityShipped"
              IN  /\ "SellerSKU" \in DOMAIN out
                  /\ out["SellerSKU"] = in["sku"]
                  /\ qk \in DOMAIN out
                  /\ out[qk] = (IF IsInt(in["quantity"])
                                THEN Str(ToString(in["quantity"].int))
                                ELSE in["quantity"])
                  /\ OtherQuantityName(call.operation) \notin DOMAIN out

\* two items with different skus parsed under the create/update schema
C6_Witness ==
    /\ ParseDone
    /\ AllItemsValid(call.item_args)
    /\ call.operation = "UpdateInboundShipment"
    /\ Len(call.item_args.list) = 2
    /\ call.item_args.list[1].dict["sku"] # call.item_args.list[2].dict["sku"]
    /\ Returned(result)
    /\ result.ret.list[2].dict["SellerSKU"] = Str("SKU-A")
    /\ result.ret.list[2].dict["QuantityShipped"] = Str("3")

\* the argument is None, empty, or a list with an element that is no dict or
\* lacks sku or quantity
SomeItemInvalid(item_args) ==
    \/ IsNone(item_args)
    \/ /\ IsList(item_args)
       /\ \/ Len(item_args.list) = 0
          \/ \E i \in 1..Len(item_args.list) :
                \/ ~IsDict(item_args.list[i])
                \/ /\ IsDict(item_args.list[i])
                   /\ ~({"sku", "quantity"} \subseteq
                            DOMAIN item_args.list[i].dict)

\* C7: parse_item_args raises MWSError, returning no list, for None, for the
\* empty list, for a list holding a non-dict at any position and for a list
\* holding a dict without sku or without quantity, under either schema.
C7_InvalidItemsRaise ==
    (ParseDone /\ SomeItemInvalid(call.item_args)) => result = Raise("MWSError")

\* a valid first item followed by a dict that lacks quantity
C7_Witness ==
    /\ ParseDone
    /\ IsList(call.item_args)
    /\ Len(call.item_args.list) = 2
    /\ AllItemsValid(List(<<call.item_args.list[1]>>))
    /\ IsDict(call.item_args.list[2])
    /\ DOMAIN call.item_args.list[2].dict = {"sku"}
    /\ result = Raise("MWSError")

PassThroughNames == {<<"asin", "ASIN">>, <<"condition", "Condition">>}

QuantityInCaseShape(in, out) ==
    /\ "QuantityInCase" \in DOMAIN out
    /\ IsStr(out["QuantityInCase"]) \/ IsNone(out["QuantityInCase"])
    /\ "quantity_in_case" \notin DOMAIN in => IsNone(out["QuantityInCase"])
    /\ ("quantity_in_case" \in DOMAIN in /\ IsInt(in["quantity_in_case"])) =>
            out["QuantityInCase"] = Str(ToString(in["quantity_in_case"].int))

\* C10 as stated: under the plan schema ASIN and Condition are keys of an
\* output mapping exactly when the item has asin / condition (value passed
\* through), QuantityInCase is a key of every output mapping under both
\* schemas, and the create/update schema never emits ASIN or Condition.
C10_AsStated ==
    (ParseDone /\ Returned(result)) =>
        \A i \in 1..Len(result.ret.list) :
            LET in == call.item_args.list[i].dict
                out == result.ret.list[i].dict
            IN  /\ QuantityInCaseShape(in, out)
                /\ \A p \in PassThroughNames :
                      IF call.operation = "CreateInboundShipmentPlan"
                      THEN /\ p[2] \in DOMAIN out <=> p[1] \in DOMAIN in
                           /\ p[1] \in DOMAIN in => out[p[2]] = in[p[1]]
                      ELSE p[2] \notin DOMAIN out

\* C10 (amended): under the plan schema ASIN and Condition are keys of every
\* output mapping, holding the item's asin / condition unchanged when it has
\* one and None when it has not; QuantityInCase is a key of every output
\* mapping under both schemas (string, or None when not supplied); the
\* create/update schema never emits ASIN or Condition.
C10_PassThroughOrNone ==
    (ParseDone /\ Returned(result)) =>
        \A i \in 1..Len(result.ret.list) :
            LET in == call.item_args.list[i].dict
                out == result.ret.list[i].dict
            IN  /\ QuantityInCaseShape(in, out)
                /\ \A p \in PassThroughNames :
                      IF call.operation = "CreateInboundShipmentPlan"
                      THEN /\ p[2] \in DOMAIN out
                           /\ p[1] \in DOMAIN in => out[p[2]] = in[p[1]]
                           /\ p[1] \notin DOMAIN in => out[p[2]] = None
                      ELSE p[2] \notin DOMAIN out

\* a plan item with condition but no asin: Condition passed through, ASIN None
C10_Witness ==
    /\ ParseDone
    /\ Returned(result)
    /\ call.operation = "CreateInboundShipmentPlan"
    /\ Len(result.ret.list) = 1
    /\ DOMAIN call.item_args.list[1].dict = {"sku", "quantity", "condition"}
    /\ result.ret.list[1].dict["Condition"] = Str("NewItem")
    /\ result.ret.list[1].dict["ASIN"] = None
    /\ result.ret.list[1].dict["QuantityInCase"] = None

----------------------------------------------------------------------------
(* Properties of the client (checked under Spec and SpecAddress)           *)

ShipmentOps ==
    {"create_inbound_shipment_plan", "create_inbound_shipment",
     "update_inbound_shipment"}

ItemsValid(items) ==
    /\ IsList(items)
    /\ Len(items.list) > 0
    /\ \A i \in 1..Len(items.list) :
          /\ IsDict(items.list[i])
          /\ {"sku", "quantity"} \subseteq DOMAIN items.list[i].dict

\* C1: whenever no ship-from address is stored (the field is {} or None),
\* create_inbound_shipment_plan, create_inbound_shipment and
\* update_inbound_shipment raise and hand nothing to make_request, with
\* MWSError when their other arguments are valid; so a request from any of
\* the three comes only after some set_ship_from_address returned normally.
C1_NoAddressNoRequest ==
    call.op \in ShipmentOps =>
        /\ ~Truthy(from_address) =>
              /\ Raised(result)
              /\ request = None
              /\ (/\ ItemsValid(call.items)
                  /\ call.op # "create_inbound_shipment_plan" =>
                        /\ IsStr(call.shipment_id)
                        /\ IsStr(call.shipment_name)
                        /\ IsStr(call.destination))
                 => result = Raise("MWSError")
        /\ request # None => address_set

\* a plan asked with valid items from a client built without an address
C1_Witness ==
    /\ call.op = "create_inbound_shipment_plan"
    /\ ItemsValid(call.items)
    /\ from_address = Dict(EmptyDict)
    /\ ~address_set
    /\ result = Raise("MWSError")
    /\ request = None

PagedOps ==
    {"list_inbound_shipments", "list_inbound_shipment_items",
     "get_report_list", "get_report_request_list"}

\* C2: a token-paginated method called with a non-empty next_token sends a
\* request whose only parameters are Action=<OperationName>ByNextToken and
\* NextToken=<token>, whatever its other arguments.
C2_TokenOnlyRequest ==
    (call.op \in PagedOps /\ Truthy(call.next_token)) =>
        /\ Returned(result)
        /\ request = Dict(("Action" :> Str(call.action \o "ByNextToken"))
                          @@ ("NextToken" :> call.next_token))

\* the call has an argument that one of the three operations rejects
InvalidShipmentCall ==
    \/ ~Truthy(from_address)
    \/ call.op # "update_inbound_shipment" /\ ~ItemsValid(call.items)
    \/ /\ call.op = "update_inbound_shipment"
       /\ Truthy(call.items)
       /\ ~ItemsValid(call.items)
    \/ /\ call.op # "create_inbound_shipment_plan"
       /\ \/ ~IsStr(call.shipment_id)
          \/ ~IsStr(call.shipment_name)
          \/ ~IsStr(call.destination)

\* C3: a shipment operation called with empty or malformed items, an item
\* lacking a required key, no address stored, or a shipment_id, shipment_name
\* or destination that is not text, raises, and a shipment operation that
\* raised has handed nothing to make_request.
C3_FailureBeforeRequest ==
    call.op \in ShipmentOps =>
        /\ InvalidShipmentCall => Raised(result)
        /\ Raised(result) => request = None

\* with an address stored and text arguments, create_inbound_shipment is
\* given a valid item followed by one without quantity
C3_Witness ==
    /\ call.op = "create_inbound_shipment"
    /\ Truthy(from_address)
    /\ IsStr(call.shipment_id) /\ IsStr(call.shipment_name)
    /\ IsStr(call.destination)
    /\ IsList(call.items)
    /\ Len(call.items.list) = 2
    /\ ItemsValid(List(<<call.items.list[1]>>))
    /\ ~ItemsValid(List(<<call.items.list[2]>>))
    /\ result = Raise("MWSError")
    /\ request = None

RequiredAddressKeys == {"name", "address_1", "city"}

\* C4: after construction with a valid from_address keyword the client holds
\* that address as set_ship_from_address stores it (the ShipFromAddress.*
\* mapping, so the address precondition is met); after construction without
\* one it holds the empty mapping.
C4_ConstructorStoresAddress ==
    (call.op = "__init__" /\ phase = "ready") =>
        IF "from_address" \in DOMAIN call.kwargs.dict
           /\ ~IsNone(call.kwargs.dict["from_address"])
        THEN /\ from_address =
                    set_ship_from_address(
                        call.kwargs.dict["from_address"]).from_address
             /\ Truthy(from_address)
        ELSE from_address = Dict(EmptyDict)

ShipFromKeys ==
    {"ShipFromAddress.Name", "ShipFromAddress.AddressLine1",
     "ShipFromAddress.AddressLine2", "ShipFromAddress.City",
     "ShipFromAddress.DistrictOrCounty",
     "ShipFromAddress.StateOrProvinceCode", "ShipFromAddress.PostalCode",
     "ShipFromAddress.CountryCode"}

OptionalAddressNames ==
    {<<"address_2", "ShipFromAddress.AddressLine2">>,
     <<"district_or_county", "ShipFromAddress.DistrictOrCounty">>,
     <<"state_or_province", "ShipFromAddress.StateOrProvinceCode">>,
     <<"postal_code", "ShipFromAddress.PostalCode">>}

\* C5: set_ship_from_address raises for an address without name, address_1
\* or city; for any other address dict it returns and the stored mapping has
\* exactly the eight ShipFromAddress.<RemoteField> keys, CountryCode being
\* "US" when country is left out and the given value otherwise, and every
\* other optional field left out being None.
C5_AddressStoredWithDefaults ==
    (call.op = "set_ship_from_address" /\ IsDict(call.address)) =>
        LET address == call.address.dict
        IN  IF ~(RequiredAddressKeys \subseteq DOMAIN address)
            THEN Raised(result)
            ELSE /\ Returned(result)
                 /\ IsDict(from_address)
                 /\ DOMAIN from_address.dict = ShipFromKeys
                 /\ from_address.dict["ShipFromAddress.CountryCode"] =
                        (IF "country" \in DOMAIN address
                         THEN address["country"] ELSE Str("US"))
                 /\ from_address.dict["ShipFromAddress.Name"] =
                        address["name"]
                 /\ \A p \in OptionalAddressNames :
                        from_address.dict[p[2]] =
                            (IF p[1] \in DOMAIN address THEN address[p[1]]
                             ELSE None)

\* the required keys alone: the country defaults, the postal code is None
C5_Witness ==
    /\ call.op = "set_ship_from_address"
    /\ IsDict(call.address)
    /\ DOMAIN call.address.dict = RequiredAddressKeys
    /\ Returned(result)
    /\ from_address.dict["ShipFromAddress.CountryCode"] = Str("US")
    /\ from_address.dict["ShipFromAddress.PostalCode"] = None
    /\ from_address.dict["ShipFromAddress.City"] = Str("the city")

StatusKey == "InboundShipmentHeader.ShipmentStatus"

\* a field is absent from a built request when it has no key or holds None,
\* the value the builders assign to remove a field from the request
FieldAbsent(data, k) == k \notin DOMAIN data \/ data[k] = None

\* C8: a shipment_status outside {WORKING, SHIPPED, CANCELLED} is never sent
\* as given: create_inbound_shipment's request carries ShipmentStatus
\* "WORKING", update_inbound_shipment's request has the status field absent;
\* a status inside the set is sent unchanged by both.
C8_InvalidStatusNotSent ==
    (call.op \in {"create_inbound_shipment", "update_inbound_shipment"}
     /\ Returned(result)) =>
        /\ IsDict(request)
        /\ IF call.shipment_status \in
                {Str("WORKING"), Str("SHIPPED"), Str("CANCELLED")}
           THEN request.dict[StatusKey] = call.shipment_status
           ELSE IF call.op = "create_inbound_shipment"
                THEN request.dict[StatusKey] = Str("WORKING")
                ELSE FieldAbsent(request.dict, StatusKey)

\* create_inbound_shipment sent with the status "BOGUS"
C8_Witness ==
    /\ call.op = "create_inbound_shipment"
    /\ call.shipment_status = Str("BOGUS")
    /\ Returned(result)
    /\ request.dict[StatusKey] = Str("WORKING")

ShipmentHeaderKeys ==
    {"Action", "ShipmentId", "InboundShipmentHeader.ShipmentName",
     "InboundShipmentHeader.DestinationFulfillmentCenterId",
     "InboundShipmentHeader.LabelPrepPreference",
     "InboundShipmentHeader.AreCasesRequired",
     "InboundShipmentHeader.ShipmentStatus",
     "InboundShipmentHeader.IntendedBoxContentsSource"}
    \cup {"InboundShipmentHeader." \o k : k \in ShipFromKeys}

ItemParamKey(n, field) ==
    "InboundShipmentItems.member." \o ToString(n) \o "." \o field

\* C9: update_inbound_shipment with items None or empty (its text arguments
\* and the address in order) does not raise and builds a request that has
\* the header keys and no InboundShipmentItems.* key; with a valid item list
\* its request has, beside the header keys, exactly the keys
\* InboundShipmentItems.member.<n>.<Field> for n = 1..length, the n-th
\* holding the n-th item's fields.
C9_UpdateItemsOptional ==
    (/\ call.op = "update_inbound_shipment"
     /\ IsStr(call.shipment_id) /\ IsStr(call.shipment_name)
     /\ IsStr(call.destination)
     /\ Truthy(from_address)) =>
        /\ ~Truthy(call.items) =>
              /\ Returned(result)
              /\ DOMAIN request.dict = ShipmentHeaderKeys
        /\ ItemsValid(call.items) =>
              /\ Returned(result)
              /\ DOMAIN request.dict =
                    ShipmentHeaderKeys
                    \cup {ItemParamKey(n, f) :
                            n \in 1..Len(call.items.list),
                            f \in {"SellerSKU", "QuantityShipped",
                                   "QuantityInCase"}}
              /\ \A n \in 1..Len(call.items.list) :
                    /\ request.dict[ItemParamKey(n, "SellerSKU")] =
                            call.items.list[n].dict["sku"]
                    /\ request.dict[ItemParamKey(n, "QuantityShipped")] =
                            Str(ToString(
                                call.items.list[n].dict["quantity"].int))

\* an update without items that went out
C9_Witness ==
    /\ call.op = "update_inbound_shipment"
    /\ call.items = None
    /\ Returned(result)
    /\ IsDict(request)
    /\ DOMAIN request.dict = ShipmentHeaderKeys
    /\ request.dict["Action"] = Str("UpdateInboundShipment")

\* C11 as stated: the stored address is changed only by a successful
\* set_ship_from_address; a call that fails validation leaves the address
\* stored before it in place.
C11_FailedSetKeepsAddress ==
    /\ call.op \in ShipmentOps \cup PagedOps => from_address = address_before
    /\ (/\ call.op = "set_ship_from_address"
        /\ Raised(result)
        /\ Truthy(address_before)) =>
            from_address = address_before

\* C11 (amended): the stored address is changed only by set_ship_from_address;
\* a successful call replaces it with the new ShipFromAddress.* mapping, and a
\* call that fails validation clears it to None, whatever was stored before,
\* so that the shipment operations then find no address.
C11_FailedSetClearsAddress ==
    /\ call.op \in ShipmentOps \cup PagedOps => from_address = address_before
    /\ call.op = "set_ship_from_address" =>
            IF Raised(result)
            THEN from_address = None /\ address_not_set(from_address)
            ELSE /\ IsDict(from_address)
                 /\ DOMAIN from_address.dict = ShipFromKeys
                 /\ from_address.dict["ShipFromAddress.Name"] =
                        call.address.dict["name"]

\* a set call failed on a client that held an address
C11_Witness ==
    /\ call.op = "set_ship_from_address"
    /\ Raised(result)
    /\ IsDict(address_before)
    /\ DOMAIN address_before.dict = ShipFromKeys
    /\ from_address = None

----------------------------------------------------------------------------
(* Two callers on one client: one in set_ship_from_address, one in a       *)
(* shipment operation, a step for each read or write of from_address       *)

\* the setter's addresses: two that pass validation, one without city
RaceAddresses ==
    {MkAddress({"name", "address_1", "city"}), MkAddress(AddressKeys),
     MkAddress({"name", "address_1"})}

RaceItemArgs ==
    {List(<<MkItem(ItemKeys, "SKU-A")>>),
     List(<<MkItem({"sku", "quantity"}, "SKU-B"), MkItem(ItemKeys, "SKU-A")>>)}

\* one of the three operations with text arguments in order, run on the
\* value self_from_address of the field
shipment_call(op, self_from_address, items) ==
    CASE op = "create_inbound_shipment_plan" ->
            create_inbound_shipment_plan(self_from_address, items, Str("US"),
                                         Str(""), Str(""))
      [] op = "create_inbound_shipment" ->
            create_inbound_shipment(self_from_address, Str("FBA1"),
                Str("spring restock"), Str("PHX3"), items, Str("SHIPPED"),
                Str(""), Bool(FALSE), None)
      [] op = "update_inbound_shipment" ->
            update_inbound_shipment(self_from_address, Str("FBA1"),
                Str("spring restock"), Str("PHX3"), items, Str("SHIPPED"),
                Str(""), Bool(FALSE), None)

shipment_after_check_rechecks(op, address_read, items) ==
    shipment_call(op, address_read, items)

\* the rest of an operation whose `if not self.from_address` test passed: the
\* field is read again (data.update(self.from_address) in the plan,
\* from_address = self.from_address; from_address.items() in create and
\* update); None there is a TypeError in the plan and an AttributeError in
\* the other two
shipment_after_check(op, address_read, items) ==
    IF IsNone(address_read)
    THEN Fail(IF op = "create_inbound_shipment_plan" THEN "TypeError"
              ELSE "AttributeError")
    ELSE shipment_call(op, address_read, items)

InitRace ==
    /\ phase = "ready"
    /\ from_address = Dict(EmptyDict)
    /\ call = [op |-> "none"]
    /\ result = Pending
    /\ request = None
    /\ address_set = FALSE
    /\ address_before = None
    /\ setter = Idle
    /\ reader = Idle

\* set_ship_from_address, line 131: self.from_address = None
SetterClear ==
    /\ setter.pc = "idle"
    /\ \E address \in RaceAddresses :
          setter' = [pc |-> "cleared", address |-> address]
    /\ from_address' = None
    /\ UNCHANGED <<phase, call, result, request, address_set, address_before,
                   reader>>

\* set_ship_from_address, lines 133-166: the checks, then either the raise
\* or self.from_address = addr
SetterStore ==
    /\ setter.pc = "cleared"
    /\ \E r \in {set_ship_from_address(setter.address)} :
          /\ from_address' =
                IF Returned(r.result) THEN r.from_address ELSE from_address
          /\ setter' = [pc |-> "idle", result |-> r.result]
          /\ address_set' = (address_set \/ Returned(r.result))
    /\ UNCHANGED <<phase, call, result, request, address_before, reader>>

\* a shipment operation up to and including `if not self.from_address`
ReaderCheck ==
    /\ reader.pc = "idle"
    /\ \E op \in {"create_inbound_shipment_plan", "create_inbound_shipment",
                  "update_inbound_shipment"},
          items \in RaceItemArgs :
          \E r \in {shipment_call(op, from_address, items)} :
              /\ call' = [op |-> op, items |-> items]
              /\ IF Raised(r.result)
                 THEN /\ result' = r.result
                      /\ reader' = [pc |-> "idle", checked |-> from_address]
                 ELSE /\ result' = Pending
                      /\ reader' = [pc |-> "checked", checked |-> from_address]
    /\ request' = None
    /\ address_before' = from_address
    /\ UNCHANGED <<phase, from_address, address_set, setter>>

\* the operation from its second read of self.from_address to make_request
ReaderSend ==
    /\ reader.pc = "checked"
    /\ \E r \in {shipment_after_check(call.op, from_address, call.items)} :
          /\ result' = r.result
          /\ request' = r.request
    /\ reader' = [pc |-> "idle", checked |-> reader.checked,
                  read |-> from_address]
    /\ UNCHANGED <<phase, from_address, call, address_set, address_before,
                   setter>>

NextRace ==
    \/ SetterClear
    \/ SetterStore
    \/ ReaderCheck
    \/ ReaderSend

SpecRace == InitRace /\ [][NextRace]_vars

----------------------------------------------------------------------------
(* Properties of the two callers (checked under SpecRace)                  *)

RaceDone == call.op \in ShipmentOps /\ reader.pc = "idle"

\* the mappings a successful set call of the setter stores
StoredByOneSet ==
    {set_ship_from_address(a).from_address :
        a \in {b \in RaceAddresses : RequiredAddressKeys \subseteq DOMAIN b.dict}}

\* data holds every ShipFromAddress field of addr, under the operation's
\* key names
CarriesAddress(op, data, addr) ==
    \A k \in ShipFromKeys :
        LET key == IF op = "create_inbound_shipment_plan" THEN k
                   ELSE "InboundShipmentHeader." \o k
        IN  key \in DOMAIN data /\ data[key] = addr[k]

AddressNotSetOutcome ==
    /\ result = Raise("MWSError")
    /\ request = None

CompleteAddressOutcome ==
    /\ Returned(result)
    /\ IsDict(request)
    /\ \E stored \in StoredByOneSet :
          CarriesAddress(call.op, request.dict, stored.dict)

\* C12 as stated: interleaved with set_ship_from_address, a shipment
\* operation either fails with the address-not-set error or sends a request
\* carrying the complete address of one successful set call.
C12_TwoOutcomesOnly ==
    RaceDone => AddressNotSetOutcome \/ CompleteAddressOutcome

\* C12 (amended): interleaved with set_ship_from_address, a shipment
\* operation has three outcomes. It finds no address at its check and fails
\* with the address-not-set error; or it passes the check, reads the field
\* again and sends a request carrying the complete address it read, stored by
\* one successful set call; or it passes the check, reads the field again
\* after the setter cleared it, and fails with TypeError (plan) or
\* AttributeError (create, update), sending nothing.
C12_ThreeOutcomes ==
    RaceDone =>
        \/ /\ AddressNotSetOutcome
           /\ ~Truthy(reader.checked)
           /\ "read" \notin DOMAIN reader
        \/ /\ CompleteAddressOutcome
           /\ Truthy(reader.checked)
           /\ reader.read \in StoredByOneSet
           /\ CarriesAddress(call.op, request.dict, reader.read.dict)
        \/ /\ result = Raise(IF call.op = "create_inbound_shipment_plan"
                             THEN "TypeError" ELSE "AttributeError")
           /\ request = None
           /\ Truthy(reader.checked)
           /\ reader.read = None

\* create_inbound_shipment passed its check on a stored address and read None
C12_Witness ==
    /\ RaceDone
    /\ call.op = "create_inbound_shipment"
    /\ reader.checked \in StoredByOneSet
    /\ reader.read = None
    /\ result = Raise("AttributeError")
    /\ request = None

====
